---- MODULE Spec2Model ----
(***************************************************************************)
(* A model of hivemind/session.py: the HiveMind session (Drone directory,  *)
(* conversation history), directed messages (ask), retrieval turns         *)
(* (brainscan), the streaming reply loop (_stream_and_display), rendering  *)
(* (to_markdown) and persistence (save_json / load_json).                  *)
(*                                                                         *)
(* A Python str is a sequence of one-character strings, so that the        *)
(* regular expressions, the substring tests and the strip calls of the     *)
(* source are computed on characters.                                      *)
(***************************************************************************)
EXTENDS Integers, Sequences, FiniteSets, TLC

\* ------------------------------------------------------------------ bounds

\* Most requests (ask or brainscan calls that reach the backend) in one run.
MaxRequests == 1
\* Most parts a streaming backend call yields before it ends or fails.
MaxDeltas == 2
\* Most requests in one run of the specification of context framing.
MaxFramingRequests == 3

\* ------------------------------------------------------- string literals

HostLabel == <<"H", "o", "s", "t">>
BrainWord == <<"B", "r", "a", "i", "n">>
TheBrainLabel == <<"T", "h", "e", "B", "r", "a", "i", "n">>
TitleLine == <<"#", " ", "H", "i", "v", "e", "M", "i", "n", "d", " ", "S", "e", "s", "s", "i", "o", "n">>
Bold == <<"*", "*">>
BoldColon == <<":", "*", "*">>
Ellipsis == <<" ", ".", ".", ".">>
NL == <<"\n">>
ExecHeadPre == <<"-", "-", "-", " ", "E", "X", "E", "C", "U", "T", "I", "N", "G", " ">>
ExecHeadPost == <<" ", "-", "-", "-">>
ExitCodeText == <<"E", "X", "I", "T", " ", "C", "O", "D", "E", ":", " ">>
OutputText == <<"\n", "\n", "O", "U", "T", "P", "U", "T", ":", "\n">>
ExecFailedText == <<"E", "X", "E", "C", "U", "T", "I", "O", "N", " ", "F", "A", "I", "L", "E", "D", ":", "\n">>
EndText == <<"\n", "-", "-", "-", " ", "E", "N", "D", " ", "-", "-", "-">>
HostQueryPre == <<"H", "o", "s", "t", ":", " ", "U", "s", "i", "n", "g", " ", "t", "h", "e", " ", "f", "o", "l", "l", "o", "w", "i", "n", "g", " ", "k", "n", "o", "w", "l", "e", "d", "g", "e", " ", "f", "r", "o", "m", " ", "T", "h", "e", "B", "r", "a", "i", "n", ",", " ", "a", "n", "s", "w", "e", "r", " ", "t", "h", "i", "s", " ", "q", "u", "e", "r", "y", ":", " ", "\"">>
UserQueryPre == <<"U", "s", "i", "n", "g", " ", "t", "h", "e", " ", "f", "o", "l", "l", "o", "w", "i", "n", "g", " ", "k", "n", "o", "w", "l", "e", "d", "g", "e", " ", "f", "r", "o", "m", " ", "T", "h", "e", "B", "r", "a", "i", "n", ",", " ", "a", "n", "s", "w", "e", "r", " ", "t", "h", "i", "s", " ", "q", "u", "e", "r", "y", ":", " ", "\"">>
Quote == <<"\"">>
ContextText == <<"C", "O", "N", "T", "E", "X", "T", ":", "\n">>
NoContextText == <<"[", "N", "o", " ", "c", "o", "n", "t", "e", "x", "t", " ", "r", "e", "t", "u", "r", "n", "e", "d", " ", "f", "r", "o", "m", " ", "T", "h", "e", "B", "r", "a", "i", "n", ".", "]">>
HitSeparator == <<"\n", "\n", "-", "-", "-", "\n", "\n">>
DefaultPersona == <<"Y", "o", "u", " ", "a", "r", "e", " ", "a", " ", "h", "e", "l", "p", "f", "u", "l", " ", "a", "s", "s", "i", "s", "t", "a", "n", "t", ".">>
\* The backquote character (written as a word: the character itself cannot
\* appear in a TLA+ string).
Tick == "backquote"
Fence == <<Tick, Tick, Tick>>
PythonTag == <<"p", "y", "t", "h", "o", "n">>
ShTag == <<"s", "h">>

\* --------------------------------------------------------- str operations

\* What \w matches.
WordChars ==
  { "a", "b", "c", "d", "e", "f", "g", "h", "i", "j", "k", "l", "m",
    "n", "o", "p", "q", "r", "s", "t", "u", "v", "w", "x", "y", "z",
    "A", "B", "C", "D", "E", "F", "G", "H", "I", "J", "K", "L", "M",
    "N", "O", "P", "Q", "R", "S", "T", "U", "V", "W", "X", "Y", "Z",
    "0", "1", "2", "3", "4", "5", "6", "7", "8", "9", "_" }

\* What str.strip and str.rstrip remove.
Whitespace == { " ", "\n", "\t", "\r" }

\* sep.join(parts)
RECURSIVE Join(_, _)
Join(parts, sep) ==
  IF parts = <<>> THEN <<>>
  ELSE IF Len(parts) = 1 THEN parts[1]
  ELSE parts[1] \o sep \o Join(Tail(parts), sep)

RECURSIVE RStrip(_)
RStrip(s) ==
  IF s = <<>> THEN s
  ELSE IF s[Len(s)] \in Whitespace THEN RStrip(SubSeq(s, 1, Len(s) - 1))
  ELSE s

RECURSIVE LStrip(_)
LStrip(s) ==
  IF s = <<>> THEN s
  ELSE IF s[1] \in Whitespace THEN LStrip(Tail(s))
  ELSE s

Strip(s) == LStrip(RStrip(s))

\* sub in s
Contains(sub, s) ==
  \E i \in 0..(Len(s) - Len(sub)) : SubSeq(s, i + 1, i + Len(sub)) = sub

\* s[i:i+len(sub)] == sub
StartsAt(s, i, sub) ==
  /\ i >= 1
  /\ i + Len(sub) - 1 <= Len(s)
  /\ SubSeq(s, i, i + Len(sub) - 1) = sub

IsPrefix(s, t) == Len(s) <= Len(t) /\ SubSeq(t, 1, Len(s)) = s

MinOf(S) == CHOOSE x \in S : \A y \in S : x <= y

\* --------------------------------------------------------- Python values

\* options: None, or a dict given as its set of <<key, value>> items.
NoneOptions == [none |-> TRUE, items |-> {}]
EmptyDict == [none |-> FALSE, items |-> {}]
\* options or {}
OrEmptyDict(options) ==
  IF options.none \/ options.items = {} THEN EmptyDict ELSE options

\* The Drone dataclass.
Drone(name, model, persona, options) ==
  [name |-> name, model |-> model, persona |-> persona, options |-> options]

\* self.drones is an insertion-ordered dict: a sequence of [key, value].
Keys(d) == { d[i].key : i \in 1..Len(d) }
KeyOrder(d) == [i \in 1..Len(d) |-> d[i].key]
Get(d, k) == d[CHOOSE i \in 1..Len(d) : d[i].key = k].value
\* d[k] = v
DictSet(d, k, v) ==
  IF k \in Keys(d)
  THEN [i \in 1..Len(d) |-> IF d[i].key = k THEN [key |-> k, value |-> v] ELSE d[i]]
  ELSE Append(d, [key |-> k, value |-> v])

\* One history entry, {"name": ..., "content": ...}.
Turn(name, content) == [name |-> name, content |-> content]

\* ------------------------------------------------------- address routing

\* re.search(r"@(\w+)", prompt): the leftmost "@" directly followed by a word
\* character; group 1 is the longest run of word characters after it.
AtStarts(prompt) ==
  { i \in 1..(Len(prompt) - 1) : prompt[i] = "@" /\ prompt[i + 1] \in WordChars }

RECURSIVE WordRunEnd(_, _)
WordRunEnd(s, i) ==
  IF i < Len(s) /\ s[i + 1] \in WordChars THEN WordRunEnd(s, i + 1) ELSE i

\* The search keeping the last match instead of the first.
TargetMatchLast(prompt) ==
  IF AtStarts(prompt) = {}
  THEN [matched |-> FALSE, group1 |-> <<>>]
  ELSE LET i == CHOOSE x \in AtStarts(prompt) : \A y \in AtStarts(prompt) : y <= x
       IN  [matched |-> TRUE,
            group1 |-> SubSeq(prompt, i + 1, WordRunEnd(prompt, i + 1))]

TargetMatch(prompt) ==
  IF AtStarts(prompt) = {}
  THEN [matched |-> FALSE, group1 |-> <<>>]
  ELSE LET i == MinOf(AtStarts(prompt))
       IN  [matched |-> TRUE,
            group1 |-> SubSeq(prompt, i + 1, WordRunEnd(prompt, i + 1))]

\* ------------------------------------------------------------- rendering

RECURSIVE TurnLines(_)
TurnLines(h) ==
  IF h = <<>> THEN <<>>
  ELSE << Bold \o h[1].name \o BoldColon, << >>, RStrip(h[1].content), << >> >>
       \o TurnLines(Tail(h))

\* to_markdown
ToMarkdown(h) == Strip(Join(<< TitleLine, << >> >> \o TurnLines(h), NL)) \o NL

\* The provisional transcript shown after a delta.
TempMd(h, name, buffer) ==
  ToMarkdown(h) \o NL \o NL \o Bold \o name \o BoldColon \o NL \o NL \o buffer \o Ellipsis

\* ------------------------------------------------- messages of the Host

PromptNoAt == <<"h", "i">>
PromptBareAt == <<"@", " ", "N">>
PromptN == <<"@", "N">>
PromptGhost == <<"@", "G", " ", "@", "N">>
PromptEN == <<"@", "E", " ", "@", "N">>
PromptCode == <<"@", "N", "\n">> \o Fence \o ShTag \o NL \o <<"x">> \o Fence
\* A python block, then a sh block, for N and for the unregistered G.
PromptTwoBlocks ==
  <<"@", "N", "\n">> \o Fence \o PythonTag \o NL \o <<" ", "x">> \o Fence
    \o NL \o Fence \o ShTag \o NL \o <<"y">> \o Fence
PromptGhostBlock ==
  <<"@", "G", "\n">> \o Fence \o PythonTag \o NL \o <<"x">> \o Fence

\* Messages ask is called with.
Prompts == { PromptNoAt, PromptBareAt, PromptN, PromptGhost, PromptEN, PromptCode }

\* Messages with fenced blocks ask is called with.
BlockPrompts == { PromptTwoBlocks, PromptGhostBlock, PromptNoAt }

\* --------------------------------------------------- code-execution bridge

\* Where the code of a block opening at i starts, 0 when no block opens at i:
\* the opening of ```(python|sh)\n
CodeStart(s, i) ==
  IF StartsAt(s, i, Fence \o PythonTag \o NL) THEN i + Len(Fence \o PythonTag \o NL)
  ELSE IF StartsAt(s, i, Fence \o ShTag \o NL) THEN i + Len(Fence \o ShTag \o NL)
  ELSE 0

\* The closing fences at or after position from.
Closers(s, from) == { j \in from..Len(s) : StartsAt(s, j, Fence) }

BlockOpensAt(s, i) == CodeStart(s, i) > 0 /\ Closers(s, CodeStart(s, i)) # {}

\* The match object of a block opening at i: (.*?) stops at the first closing fence.
BlockAt(s, i) ==
  LET cs == CodeStart(s, i)
      j == MinOf(Closers(s, cs))
  IN  [lang |-> IF StartsAt(s, i, Fence \o PythonTag \o NL) THEN PythonTag ELSE ShTag,
       code |-> SubSeq(s, cs, j - 1),
       next |-> j + Len(Fence)]

\* fenced_block_pattern.finditer(prompt) from position pos: leftmost first,
\* never overlapping.
RECURSIVE FindIter(_, _)
FindIter(s, pos) ==
  LET opens == { i \in pos..Len(s) : BlockOpensAt(s, i) }
  IN  IF opens = {} THEN <<>>
      ELSE LET m == BlockAt(s, MinOf(opens))
           IN  <<m>> \o FindIter(s, m.next)

\* list(fenced_block_pattern.finditer(prompt))
Matches(prompt) == FindIter(prompt, 1)

\* lang.upper()
Upper(lang) ==
  IF lang = PythonTag THEN <<"P", "Y", "T", "H", "O", "N">> ELSE <<"S", "H">>

Digit(d) ==
  CASE d = 0 -> "0" [] d = 1 -> "1" [] d = 2 -> "2" [] d = 3 -> "3" [] d = 4 -> "4"
    [] d = 5 -> "5" [] d = 6 -> "6" [] d = 7 -> "7" [] d = 8 -> "8" [] d = 9 -> "9"

\* str(n) of an int
RECURSIVE Str(_)
Str(n) ==
  IF n < 0 THEN <<"-">> \o Str(-n)
  ELSE IF n < 10 THEN <<Digit(n)>>
  ELSE Str(n \div 10) \o <<Digit(n % 10)>>

\* The report section of one block; outcome is what theLab did with it.
BlockReport(match, outcome) ==
  LET header == ExecHeadPre \o Upper(match.lang) \o ExecHeadPost
      body == IF outcome.kind = "returned"
              THEN ExitCodeText \o Str(outcome.exit_code) \o OutputText \o outcome.output
              ELSE ExecFailedText \o outcome.exc
  IN  header \o NL \o body \o EndText

\* The loop left at the first block whose dispatch raises.
ExecuteCodeBlocksStopAtFailure(prompt, outcomes) ==
  LET matches == Matches(prompt)
      failed == { i \in 1..Len(matches) : outcomes[i].kind = "raised" }
      n == IF failed = {} THEN Len(matches) ELSE MinOf(failed)
      results == [i \in 1..n |-> BlockReport(matches[i], outcomes[i])]
  IN  IF matches = <<>> THEN <<>>
      ELSE NL \o NL \o Join(results, NL \o NL)

\* _execute_code_blocks; outcomes[i] is theLab's outcome for the i-th block.
ExecuteCodeBlocks(prompt, outcomes) ==
  LET matches == Matches(prompt)
      results == [i \in 1..Len(matches) |-> BlockReport(matches[i], outcomes[i])]
  IN  IF matches = <<>> THEN <<>>
      ELSE NL \o NL \o Join(results, NL \o NL)

\* os.path.join(self.workspace_dir, fname) for the i-th block of a message:
\* fname holds a fresh uuid, so every block has a path of its own.
ScriptPath(i) == << "the_wormhole", "script", i >>

\* One thing done with theLab or with a script file; outcome is what theLab
\* did, for the two calls of theLab.
LabEvent(ev, path, text, outcome) ==
  [ev |-> ev, path |-> path, text |-> text, outcome |-> outcome]

NoOutcome == [kind |-> "none", exit_code |-> 0, output |-> <<>>, exc |-> <<>>]

\* The script file removed only when the run returned.
BlockEventsRemoveOnReturn(match, outcome, i) ==
  IF match.lang = PythonTag
  THEN << LabEvent("write", ScriptPath(i), Strip(match.code), NoOutcome),
          LabEvent("run_python_script_in_lab", ScriptPath(i), <<>>, outcome) >>
       \o IF outcome.kind = "returned"
          THEN << LabEvent("remove", ScriptPath(i), <<>>, NoOutcome) >>
          ELSE << >>
  ELSE << LabEvent("run_in_lab", <<>>, Strip(match.code), outcome) >>

\* What the loop body of _execute_code_blocks does for the i-th block, in
\* order: a python block is written to a script file, run, and the file is
\* removed in the finally clause; a sh block is handed to run_in_lab.
BlockEvents(match, outcome, i) ==
  IF match.lang = PythonTag
  THEN << LabEvent("write", ScriptPath(i), Strip(match.code), NoOutcome),
          LabEvent("run_python_script_in_lab", ScriptPath(i), <<>>, outcome),
          LabEvent("remove", ScriptPath(i), <<>>, NoOutcome) >>
  ELSE << LabEvent("run_in_lab", <<>>, Strip(match.code), outcome) >>

RECURSIVE FlatEvents(_, _, _)
FlatEvents(matches, outcomes, i) ==
  IF i > Len(matches) THEN << >>
  ELSE BlockEvents(matches[i], outcomes[i], i) \o FlatEvents(matches, outcomes, i + 1)

\* Everything _execute_code_blocks does with theLab and the workspace.
ExecuteEvents(prompt, outcomes) == FlatEvents(Matches(prompt), outcomes, 1)

\* The files of the workspace after the events.
RECURSIVE FilesAfter(_, _)
FilesAfter(files, events) ==
  IF events = << >> THEN files
  ELSE FilesAfter(
         CASE events[1].ev = "write" -> files \cup { events[1].path }
           [] events[1].ev = "remove" -> files \ { events[1].path }
           [] OTHER -> files,
         Tail(events))

\* --------------------------------------------------------- context builder

Message(role, content) == [role |-> role, content |-> content]

\* Every entry of another speaker framed without its speaker label.
FrameUnlabelled(msg, target_name) ==
  IF msg.name = target_name
  THEN Message("assistant", msg.content)
  ELSE Message("user", msg.content)

\* Every entry of a speaker other than the Host framed as the assistant's.
FrameByHost(msg, target_name) ==
  IF msg.name # HostLabel
  THEN Message("assistant", msg.content)
  ELSE Message("user", <<"[">> \o msg.name \o <<"]", ":", " ">> \o msg.content)

\* The loop body of ask over one history entry.
Frame(msg, target_name) ==
  IF msg.name = target_name
  THEN Message("assistant", msg.content)
  ELSE Message("user", <<"[">> \o msg.name \o <<"]", ":", " ">> \o msg.content)

\* The messages ask hands to the backend.
BuildMessages(persona, h, target_name) ==
  <<Message("system", persona)>> \o [i \in 1..Len(h) |-> Frame(h[i], target_name)]

\* ------------------------------------------------------------------- state

VARIABLES
  hasIpy,          \* _HAS_IPY: whether IPython.display could be imported
  id,              \* self.id
  mode,            \* self.mode
  execute,         \* self.execute
  drones,          \* self.drones
  history,         \* self.history
  weaviateClient,  \* self._weaviate_client: "None" or "client"
  served,          \* how many requests have reached the backend so far
  pc,              \* "start" before a session exists; then "idle", or where
                   \* the request in progress is: "streaming"
                   \* (inside the loop over ollama.chat(stream=True)) or "chat"
                   \* (inside the blocking ollama.chat call)
  op,              \* the operation in progress or last completed
  backend,         \* the ollama.chat call of the current or last operation:
                   \* "none" (not made), "open" (in progress), "done" (it
                   \* delivered its reply) or "failed" (it raised)
  request,         \* the arguments of that call
  reply,           \* the local reply of _stream_and_display
  parts,           \* what the call has delivered so far: the parts yielded by a
                   \* streaming call, the response of a blocking one
  handle,          \* the local handle of _stream_and_display
  shown,           \* the calls of _display_markdown made by the current or last
                   \* operation, in order
  result,          \* how the last completed operation ended
  args,            \* the arguments of the operation in progress or last completed
  hist0,           \* self.history when the current or last operation began
  hist1,           \* self.history when the operation entered _stream_and_display
  drones0,         \* self.drones when the current or last operation began
  workspace,       \* the files that exist in self.workspace_dir
  trace,           \* the steps the current or last operation has taken, in order
  lab,             \* what the current or last operation did with theLab and
                   \* with the script files it wrote, in order
  written,         \* what the current or last operation wrote to the file at
                   \* path (save_json)
  quota            \* how many requests the run may make

vars == << hasIpy, id, mode, execute, drones, history, weaviateClient, served,
           pc, op, backend, request, reply, parts, handle, shown, result,
           args, hist0, hist1, drones0, workspace, trace, lab, written, quota >>

session == << id, mode, execute, drones, history >>
call == << backend, request, reply, parts, handle, shown, hist1 >>
effects == << trace, lab, written >>

\* ------------------------------------------------------------- input sets

NameN == <<"N">>
NameE == <<"E">>
NameG == <<"G">>
NameHostB == <<"H", "o", "s", "t", "B">>
NameTheBrainX == <<"T", "h", "e", "B", "r", "a", "i", "n", "X">>

\* Names add_drone is called with.
Names == { NameN, NameHostB, NameTheBrainX }

\* Names brainscan is called with.
ScanNames == { NameN, NameG }

ModelA == <<"m", "1">>
ModelB == <<"m", "2">>
PersonaA == <<"P", "a">>
PersonaB == <<"P", "b">>
SomeOptions == [none |-> FALSE, items |-> { <<"temperature", 1>> }]

\* (model, persona, options) triples add_drone is called with.
AddArgs ==
  { [model |-> ModelA, persona |-> PersonaA, options |-> NoneOptions],
    [model |-> ModelB, persona |-> PersonaB, options |-> SomeOptions] }

\* What theLab does with one block: it returns (exit_code, output) or raises.
LabOutcomes ==
  { [kind |-> "returned", exit_code |-> 0, output |-> <<"o">>, exc |-> <<>>],
    [kind |-> "raised", exit_code |-> 0, output |-> <<>>, exc |-> <<"e">>] }

\* The same with a run that returns a non-zero exit code.
BlockOutcomes ==
  LabOutcomes
    \cup { [kind |-> "returned", exit_code |-> 1, output |-> <<"o">>, exc |-> <<>>] }

\* Parts a streaming ollama.chat yields.
Parts ==
  { [message |-> [content |-> <<"a">>]],
    [message |-> [content |-> <<"b">>]] }

\* Responses a blocking ollama.chat returns.
Responses == { [message |-> [content |-> <<"a", "b">>]] }

Queries == { <<"q">> }

\* Results of collection.query.near_text(...).objects
HitLists ==
  { <<>>,
    << [properties |-> [text |-> <<"k">>]] >>,
    << [properties |-> [id |-> 1]] >> }

\* ------------------------------------------------------ operation outcomes

ReturnNone == [kind |-> "return", none |-> TRUE, value |-> <<>>, exc |-> ""]
Return(v) == [kind |-> "return", none |-> FALSE, value |-> v, exc |-> ""]
Raise(e) == [kind |-> "raise", none |-> FALSE, value |-> <<>>, exc |-> e]
NoResult == [kind |-> "none", none |-> FALSE, value |-> <<>>, exc |-> ""]

NoArgs == [name |-> <<>>]

\* Nothing was written to a file.
NoRecord == [t |-> "none"]

\* An operation that takes no step of a request, dispatches nothing to theLab
\* and writes no file.
NoEffects ==
  /\ trace' = <<>>
  /\ lab' = <<>>
  /\ written' = NoRecord

NoRequest ==
  [name |-> <<>>, model |-> <<>>, messages |-> <<>>, stream |-> FALSE,
   options |-> EmptyDict]

\* An operation begins: nothing is left of the previous operation's backend call.
ResetCall ==
  /\ backend' = "none"
  /\ request' = NoRequest
  /\ reply' = <<>>
  /\ parts' = <<>>
  /\ handle' = "None"
  /\ shown' = <<>>
  /\ hist1' = <<>>

\* ---------------------------------------------------------- construction

\* (execute, mode) pairs the constructor is called with.
CtorArgs ==
  { [execute |-> FALSE, mode |-> "moderated"],
    [execute |-> TRUE, mode |-> "swarm"] }

\* uuid.uuid4() values.
FreshIds == { "uuid-1" }

\* The module is imported and no session exists yet.
Imported ==
  /\ id = ""
  /\ mode = ""
  /\ execute = FALSE
  /\ drones = <<>>
  /\ history = <<>>
  /\ weaviateClient = "None"
  /\ served = 0
  /\ pc = "start"
  /\ op = "import"
  /\ backend = "none"
  /\ request = NoRequest
  /\ hist1 = <<>>
  /\ reply = <<>>
  /\ parts = <<>>
  /\ handle = "None"
  /\ shown = <<>>
  /\ result = NoResult
  /\ args = NoArgs
  /\ hist0 = <<>>
  /\ drones0 = <<>>
  /\ workspace = {}
  /\ trace = <<>>
  /\ lab = <<>>
  /\ written = NoRecord

Init ==
  /\ hasIpy \in BOOLEAN
  /\ quota = MaxRequests
  /\ Imported

\* HiveMind(execute, mode), with fresh the uuid4 drawn
New(exec, m, fresh) ==
  /\ pc = "start"
  /\ pc' = "idle"
  /\ op' = "__init__"
  /\ id' = fresh
  /\ drones' = <<>>
  /\ history' = <<>>
  /\ execute' = exec
  /\ mode' = m
  /\ result' = ReturnNone
  /\ NoEffects
  /\ UNCHANGED << hasIpy, quota, workspace, weaviateClient, served, call, args, hist0, drones0 >>

\* ------------------------------------------------------------- persistence

\* The dict save_json hands to json.dump.
SaveData ==
  [id |-> id,
   history |-> history,
   mode |-> mode,
   execute |-> execute,
   drones |-> [i \in 1..Len(drones) |-> [key |-> drones[i].key, value |-> drones[i].value]]]

\* What json.dump writes for the values save_json hands it, as the JSON value
\* tree of the text: a str becomes a string, a bool true or false, an int a
\* number, None null, a list an array and a dict an object whose members keep
\* the dict's order.
JStr(s) == [t |-> "string", v |-> s]
JBool(b) == [t |-> IF b THEN "true" ELSE "false"]
JNum(n) == [t |-> "number", v |-> n]
JNull == [t |-> "null"]
JArray(items) == [t |-> "array", items |-> items]
JObject(members) == [t |-> "object", members |-> members]

JOptions(options) ==
  IF options.none THEN JNull
  ELSE JObject({ << item[1], JNum(item[2]) >> : item \in options.items })

\* drone.__dict__ as json.dump writes it.
JDrone(drone) ==
  JObject(<< << "name", JStr(drone.name) >>,
             << "model", JStr(drone.model) >>,
             << "persona", JStr(drone.persona) >>,
             << "options", JOptions(drone.options) >> >>)

JTurn(msg) ==
  JObject(<< << "name", JStr(msg.name) >>, << "content", JStr(msg.content) >> >>)

\* json.dump(data, fh, indent=2) on the dict of save_json.
JsonDump(data) ==
  JObject(<< << "id", JStr(data.id) >>,
             << "history", JArray([i \in 1..Len(data.history) |-> JTurn(data.history[i])]) >>,
             << "mode", JStr(data.mode) >>,
             << "execute", JBool(data.execute) >>,
             << "drones",
                JObject([i \in 1..Len(data.drones) |->
                           << data.drones[i].key, JDrone(data.drones[i].value) >>]) >> >>)

\* The value json.load gives for a member of an object: the last member of
\* that name.
Member(members, k) ==
  members[CHOOSE i \in 1..Len(members) :
            /\ members[i][1] = k
            /\ \A j \in (i + 1)..Len(members) : members[j][1] # k][2]

MemberNames(members) == { members[i][1] : i \in 1..Len(members) }

PyScalar(node) ==
  CASE node.t = "string" -> node.v
    [] node.t = "number" -> node.v
    [] node.t = "true" -> TRUE
    [] node.t = "false" -> FALSE

PyOptions(node) ==
  IF node.t = "null" THEN NoneOptions
  ELSE [none |-> FALSE,
        items |-> { << m[1], PyScalar(m[2]) >> : m \in node.members }]

\* A JSON object of scalar members, and "options", as the dict json.load gives.
PyDict(node) ==
  [k \in MemberNames(node.members) |->
     IF k = "options" THEN PyOptions(Member(node.members, k))
     ELSE PyScalar(Member(node.members, k))]

\* json.load(fh) on a file json.dump wrote: the decoded record.
JsonLoad(json) ==
  [k \in MemberNames(json.members) |->
     CASE k = "history" ->
            [i \in 1..Len(Member(json.members, k).items) |->
               PyDict(Member(json.members, k).items[i])]
       [] k = "drones" ->
            [i \in 1..Len(Member(json.members, k).members) |->
               [key |-> Member(json.members, k).members[i][1],
                value |-> PyDict(Member(json.members, k).members[i][2])]]
       [] OTHER -> PyScalar(Member(json.members, k))]

\* data.get(k, default)
DataGet(data, k, default) == IF k \in DOMAIN data THEN data[k] ELSE default

\* Whether Drone(**payload) accepts the payload (name and model are required,
\* no other keyword than the four fields is accepted).
PayloadOk(payload) ==
  /\ {"name", "model"} \subseteq DOMAIN payload
  /\ DOMAIN payload \subseteq {"name", "model", "persona", "options"}

\* Drone(**payload)
DroneOf(payload) ==
  Drone(payload.name, payload.model,
        DataGet(payload, "persona", DefaultPersona),
        DataGet(payload, "options", EmptyDict))

\* The loop of load_json over data["drones"].items().
RECURSIVE LoadDrones(_, _)
LoadDrones(d, items) ==
  IF items = <<>> THEN d
  ELSE LoadDrones(DictSet(d, items[1].key, DroneOf(items[1].value)), Tail(items))

\* load_json taking the default mode, whatever the record holds.
LoadJsonDefaultMode(data, fresh) ==
  LET items == DataGet(data, "drones", <<>>)
  IN  [ok |-> \A i \in 1..Len(items) : PayloadOk(items[i].value),
       execute |-> DataGet(data, "execute", FALSE),
       mode |-> "moderated",
       id |-> DataGet(data, "id", fresh),
       history |-> DataGet(data, "history", <<>>),
       drones |-> IF \A i \in 1..Len(items) : PayloadOk(items[i].value)
                  THEN LoadDrones(<<>>, items) ELSE <<>>]

\* load_json on the decoded record data; fresh is the uuid4 drawn when the
\* record has no id. ok is FALSE when a Drone payload is rejected (TypeError).
LoadJson(data, fresh) ==
  LET items == DataGet(data, "drones", <<>>)
  IN  [ok |-> \A i \in 1..Len(items) : PayloadOk(items[i].value),
       execute |-> DataGet(data, "execute", FALSE),
       mode |-> DataGet(data, "mode", "moderated"),
       id |-> DataGet(data, "id", fresh),
       history |-> DataGet(data, "history", <<>>),
       drones |-> IF \A i \in 1..Len(items) : PayloadOk(items[i].value)
                  THEN LoadDrones(<<>>, items) ELSE <<>>]

\* Persisted records load_json is called on.
RecGhost == [history |-> << Turn(NameG, <<"y", "o">>) >>]
RecHostDrone ==
  [id |-> "uuid-2", mode |-> "swarm", execute |-> FALSE,
   drones |-> << [key |-> HostLabel,
                  value |-> [name |-> HostLabel, model |-> ModelA,
                             persona |-> PersonaA, options |-> EmptyDict]] >>,
   history |-> <<>>]
RecGood ==
  [id |-> "uuid-2", mode |-> "moderated", execute |-> FALSE,
   drones |-> << [key |-> NameN,
                  value |-> [name |-> NameN, model |-> ModelA,
                             persona |-> PersonaA, options |-> EmptyDict]],
                 [key |-> NameE, value |-> [name |-> NameE, model |-> ModelB]] >>,
   history |-> << Turn(HostLabel, PromptN), Turn(NameN, <<"a">>),
                  Turn(NameE, <<"y", "o">>) >>]
RecMalformed ==
  [drones |-> << [key |-> NameN, value |-> [name |-> NameN]] >>]

Records == { RecGhost, RecHostDrone, RecGood, RecMalformed }

\* HiveMind.load_json on the file at path, which holds data: the session it
\* returns becomes the session; a rejected record raises and leaves the
\* session, if there was one, as it was.
Restore(path, data, fresh) ==
  /\ op' = "load_json"
  /\ args' = [name |-> <<>>, path |-> path]
  /\ NoEffects
  /\ IF LoadJson(data, fresh).ok
     THEN /\ pc' = "idle"
          /\ execute' = LoadJson(data, fresh).execute
          /\ mode' = LoadJson(data, fresh).mode
          /\ id' = LoadJson(data, fresh).id
          /\ history' = LoadJson(data, fresh).history
          /\ drones' = LoadJson(data, fresh).drones
          /\ hist0' = LoadJson(data, fresh).history
          /\ drones0' = LoadJson(data, fresh).drones
          /\ result' = ReturnNone
     ELSE /\ result' = Raise("TypeError")
          /\ UNCHANGED << pc, session, hist0, drones0 >>
  /\ UNCHANGED << hasIpy, quota, workspace, weaviateClient, served, call >>

\* load_json on a persisted record, before any session exists.
Load(data, fresh) ==
  /\ pc = "start"
  /\ Restore("record", data, fresh)

\* load_json on the file the session just wrote with save_json.
Reload(fresh) ==
  /\ pc = "idle"
  /\ op = "save_json"
  /\ Restore("saved", JsonLoad(written), fresh)

\* save_json
SaveJson ==
  /\ pc = "idle"
  /\ op' = "save_json"
  /\ trace' = <<>>
  /\ lab' = <<>>
  /\ written' = JsonDump(SaveData)
  /\ result' = ReturnNone
  /\ args' = NoArgs
  /\ hist0' = history
  /\ drones0' = drones
  /\ ResetCall
  /\ UNCHANGED << hasIpy, quota, workspace, session, weaviateClient, served, pc >>

\* to_markdown called by the operator
Render ==
  /\ pc = "idle"
  /\ op' = "to_markdown"
  /\ NoEffects
  /\ result' = Return(ToMarkdown(history))
  /\ args' = NoArgs
  /\ hist0' = history
  /\ drones0' = drones
  /\ ResetCall
  /\ UNCHANGED << hasIpy, quota, workspace, session, weaviateClient, served, pc >>

\* ------------------------------------------------------- drone management

\* add_drone with the reserved labels compared for equality, not as substrings.
AddDroneToExact(d, name, model, persona, options) ==
  IF name \in Keys(d)
  THEN [drones |-> d, result |-> Raise("ValueError")]
  ELSE IF name = HostLabel \/ name = BrainWord
  THEN [drones |-> d, result |-> Raise("ValueError")]
  ELSE [drones |-> DictSet(d, name, Drone(name, model, persona, OrEmptyDict(options))),
        result |-> ReturnNone]

\* add_drone without the check for a name already registered.
AddDroneToOverwrite(d, name, model, persona, options) ==
  IF Contains(HostLabel, name) \/ Contains(BrainWord, name)
  THEN [drones |-> d, result |-> Raise("ValueError")]
  ELSE [drones |-> DictSet(d, name, Drone(name, model, persona, OrEmptyDict(options))),
        result |-> ReturnNone]

\* add_drone on directory d: the directory after the call and how the call ends.
AddDroneTo(d, name, model, persona, options) ==
  IF name \in Keys(d)
  THEN [drones |-> d, result |-> Raise("ValueError")]
  ELSE IF Contains(HostLabel, name) \/ Contains(BrainWord, name)
  THEN [drones |-> d, result |-> Raise("ValueError")]
  ELSE [drones |-> DictSet(d, name, Drone(name, model, persona, OrEmptyDict(options))),
        result |-> ReturnNone]

AddDrone(name, model, persona, options) ==
  /\ pc = "idle"
  /\ drones' = AddDroneTo(drones, name, model, persona, options).drones
  /\ result' = AddDroneTo(drones, name, model, persona, options).result
  /\ op' = "add_drone"
  /\ NoEffects
  /\ args' = [name |-> name, model |-> model, persona |-> persona, options |-> options]
  /\ hist0' = history
  /\ drones0' = drones
  /\ ResetCall
  /\ UNCHANGED << hasIpy, quota, workspace, id, mode, execute, history, weaviateClient, served, pc >>

\* ------------------------------------------------------- reply assembler

\* _display_markdown: the call it makes on the rendering surface and the
\* handle it returns.
DisplayMarkdown(md_text, h) ==
  IF ~hasIpy THEN [call |-> [via |-> "print", text |-> md_text], handle |-> "None"]
  ELSE IF h = "None"
  THEN [call |-> [via |-> "display", text |-> md_text], handle |-> "handle"]
  ELSE [call |-> [via |-> "update", text |-> md_text], handle |-> h]

\* part.get("message", {}).get("content", "")
PartContent(part) ==
  IF "message" \in DOMAIN part
  THEN DataGet(part.message, "content", <<>>)
  ELSE <<>>

\* The reply written over the last entry instead of appended.
CommitReplyOverLast(h, name, content) ==
  IF h = <<>> THEN << Turn(name, content) >>
  ELSE [h EXCEPT ![Len(h)] = Turn(name, content)]

\* self.history.append({"name": name, "content": reply})
CommitReply(h, name, content) == Append(h, Turn(name, content))

\* _stream_and_display from its first line to the ollama.chat call; h is
\* self.history at the call.
BeginReply(name, model, messages, stream, options, h) ==
  /\ handle' = DisplayMarkdown(ToMarkdown(h), "None").handle
  /\ shown' = << DisplayMarkdown(ToMarkdown(h), "None").call >>
  /\ reply' = <<>>
  /\ parts' = <<>>
  /\ request' = [name |-> name, model |-> model, messages |-> messages,
                 stream |-> stream, options |-> OrEmptyDict(options)]
  /\ backend' = "open"
  /\ hist1' = h
  /\ pc' = IF stream THEN "streaming" ELSE "chat"

\* The loop appending the buffer to the history at every part.
StreamPartLogsPartial(part) ==
  /\ pc = "streaming"
  /\ Len(parts) < MaxDeltas
  /\ parts' = Append(parts, part)
  /\ reply' = reply \o PartContent(part)
  /\ history' = Append(history, Turn(request.name, reply \o PartContent(part)))
  /\ IF hasIpy
     THEN shown' = Append(shown,
            DisplayMarkdown(TempMd(history, request.name, reply \o PartContent(part)),
                            handle).call)
     ELSE shown' = shown
  /\ UNCHANGED << hasIpy, quota, workspace, effects, id, mode, execute, drones, weaviateClient, served, pc, op,
                  backend, request, handle, result, args, hist0, hist1, drones0 >>

\* The loop showing the delta alone instead of the buffer.
StreamPartShowsDelta(part) ==
  /\ pc = "streaming"
  /\ Len(parts) < MaxDeltas
  /\ parts' = Append(parts, part)
  /\ reply' = reply \o PartContent(part)
  /\ IF hasIpy
     THEN shown' = Append(shown,
            DisplayMarkdown(TempMd(history, request.name, PartContent(part)), handle).call)
     ELSE shown' = shown
  /\ UNCHANGED << hasIpy, quota, workspace, effects, session, weaviateClient, served, pc, op, backend, request,
                  handle, result, args, hist0, hist1, drones0 >>

\* One iteration of the streaming loop: the backend yields part.
StreamPart(part) ==
  /\ pc = "streaming"
  /\ Len(parts) < MaxDeltas
  /\ parts' = Append(parts, part)
  /\ reply' = reply \o PartContent(part)
  /\ IF hasIpy
     THEN shown' = Append(shown,
            DisplayMarkdown(TempMd(history, request.name, reply \o PartContent(part)),
                            handle).call)
     ELSE shown' = shown
  /\ UNCHANGED << hasIpy, quota, workspace, effects, session, weaviateClient, served, pc, op, backend, request,
                  handle, result, args, hist0, hist1, drones0 >>

\* The lines of _stream_and_display after the reply is known, and the return
\* to the caller of ask or brainscan.
FinishReply(content) ==
  /\ backend' = "done"
  /\ trace' = Append(trace, "append_reply")
  /\ history' = CommitReply(history, request.name, content)
  /\ shown' = Append(shown,
       DisplayMarkdown(ToMarkdown(CommitReply(history, request.name, content)),
                       handle).call)
  /\ reply' = content
  /\ result' = Return(content)
  /\ pc' = "idle"
  /\ UNCHANGED << hasIpy, quota, workspace, lab, written, id, mode, execute, drones, weaviateClient, served, op,
                  request, handle, args, hist0, hist1, drones0 >>

\* The streaming call is exhausted.
StreamEnd ==
  /\ pc = "streaming"
  /\ parts' = parts
  /\ FinishReply(reply)

\* The blocking call returns response.
ChatReturn(response) ==
  /\ pc = "chat"
  /\ parts' = << response >>
  /\ FinishReply(response.message.content)

\* The failure undoing the turns the request had committed.
BackendRaiseRollsBack ==
  /\ pc \in {"streaming", "chat"}
  /\ backend' = "failed"
  /\ result' = Raise("BackendError")
  /\ pc' = "idle"
  /\ history' = hist0
  /\ UNCHANGED << hasIpy, quota, workspace, effects, id, mode, execute, drones, weaviateClient, served, op,
                  request, reply, parts, handle, shown, args, hist0, hist1, drones0 >>

\* The failure caught, and what was received so far committed as the reply.
BackendRaiseKeepsPartial ==
  /\ pc \in {"streaming", "chat"}
  /\ backend' = "failed"
  /\ result' = Return(reply)
  /\ pc' = "idle"
  /\ history' = CommitReply(history, request.name, reply)
  /\ UNCHANGED << hasIpy, quota, workspace, effects, id, mode, execute, drones, weaviateClient, served, op,
                  request, reply, parts, handle, shown, args, hist0, hist1, drones0 >>

\* ollama.chat raises, at the call or while the parts are iterated; nothing
\* catches it in _stream_and_display, ask or brainscan.
BackendRaise ==
  /\ pc \in {"streaming", "chat"}
  /\ backend' = "failed"
  /\ result' = Raise("BackendError")
  /\ pc' = "idle"
  /\ UNCHANGED << hasIpy, quota, workspace, effects, session, weaviateClient, served, op, request, reply, parts,
                  handle, shown, args, hist0, hist1, drones0 >>

\* --------------------------------------------------------- directed message

\* prompt + exec_result if exec_result else prompt
FullPrompt(exec, prompt, outcomes) ==
  LET exec_result == IF exec THEN ExecuteCodeBlocks(prompt, outcomes) ELSE <<>>
  IN  IF exec_result # <<>> THEN prompt \o exec_result ELSE prompt

\* self._execute_code_blocks(prompt) if self.execute else "": the step taken
\* and what it does with theLab.
BridgeSteps(exec) == IF exec THEN << "execute_code_blocks" >> ELSE << >>
BridgeEvents(exec, prompt, outcomes) ==
  IF exec THEN ExecuteEvents(prompt, outcomes) ELSE << >>

\* ask appending the Host turn before the address is resolved.
AskStepLogsFirst(d, h, exec, prompt, outcomes) ==
  LET m == TargetMatch(prompt)
      h1 == Append(h, Turn(HostLabel, FullPrompt(exec, prompt, outcomes)))
  IN  IF ~m.matched
      THEN [accepted |-> FALSE, history |-> h1, target |-> <<>>, messages |-> <<>>,
            steps |-> BridgeSteps(exec) \o << "append_host", "resolve_target" >>,
            lab |-> BridgeEvents(exec, prompt, outcomes)]
      ELSE IF m.group1 \notin Keys(d)
      THEN [accepted |-> FALSE, history |-> h1, target |-> m.group1, messages |-> <<>>,
            steps |-> BridgeSteps(exec) \o << "append_host", "resolve_target" >>,
            lab |-> BridgeEvents(exec, prompt, outcomes)]
      ELSE [accepted |-> TRUE, history |-> h1, target |-> m.group1,
            messages |-> BuildMessages(Get(d, m.group1).persona, h1, m.group1),
            steps |-> BridgeSteps(exec)
                        \o << "append_host", "resolve_target", "build_messages" >>,
            lab |-> BridgeEvents(exec, prompt, outcomes)]

\* ask running the code blocks before the address is resolved.
AskStepBridgeFirst(d, h, exec, prompt, outcomes) ==
  LET m == TargetMatch(prompt)
  IN  IF ~m.matched
      THEN [accepted |-> FALSE, history |-> h, target |-> <<>>, messages |-> <<>>,
            steps |-> BridgeSteps(exec) \o << "resolve_target" >>,
            lab |-> BridgeEvents(exec, prompt, outcomes)]
      ELSE IF m.group1 \notin Keys(d)
      THEN [accepted |-> FALSE, history |-> h, target |-> m.group1, messages |-> <<>>,
            steps |-> BridgeSteps(exec) \o << "resolve_target" >>,
            lab |-> BridgeEvents(exec, prompt, outcomes)]
      ELSE LET h1 == Append(h, Turn(HostLabel, FullPrompt(exec, prompt, outcomes)))
           IN  [accepted |-> TRUE, history |-> h1, target |-> m.group1,
                messages |-> BuildMessages(Get(d, m.group1).persona, h1, m.group1),
                steps |-> BridgeSteps(exec)
                            \o << "resolve_target", "append_host", "build_messages" >>,
                lab |-> BridgeEvents(exec, prompt, outcomes)]

\* ask up to the call of _stream_and_display, on directory d and history h:
\* whether the request is accepted, the history it leaves and what it hands on.
AskStep(d, h, exec, prompt, outcomes) ==
  LET m == TargetMatch(prompt)
  IN  IF ~m.matched
      THEN [accepted |-> FALSE, history |-> h, target |-> <<>>, messages |-> <<>>,
            steps |-> << "resolve_target" >>, lab |-> << >>]
      ELSE IF m.group1 \notin Keys(d)
      THEN [accepted |-> FALSE, history |-> h, target |-> m.group1, messages |-> <<>>,
            steps |-> << "resolve_target" >>, lab |-> << >>]
      ELSE LET h1 == Append(h, Turn(HostLabel, FullPrompt(exec, prompt, outcomes)))
           IN  [accepted |-> TRUE, history |-> h1, target |-> m.group1,
                messages |-> BuildMessages(Get(d, m.group1).persona, h1, m.group1),
                steps |-> << "resolve_target" >> \o BridgeSteps(exec)
                            \o << "append_host", "build_messages" >>,
                lab |-> BridgeEvents(exec, prompt, outcomes)]

Ask(prompt, stream, outcomes) ==
  /\ pc = "idle"
  /\ op' = "ask"
  /\ args' = [name |-> <<>>, prompt |-> prompt]
  /\ hist0' = history
  /\ drones0' = drones
  /\ LET s == AskStep(drones, history, execute, prompt, outcomes)
     IN  /\ history' = s.history
         /\ trace' = IF s.accepted THEN Append(s.steps, "chat") ELSE s.steps
         /\ lab' = s.lab
         /\ workspace' = FilesAfter(workspace, s.lab)
         /\ written' = NoRecord
         /\ IF s.accepted
            THEN /\ served < quota
                 /\ served' = served + 1
                 /\ result' = NoResult
                 /\ BeginReply(s.target, Get(drones, s.target).model, s.messages,
                               stream, Get(drones, s.target).options, s.history)
            ELSE /\ result' = ReturnNone
                 /\ ResetCall
                 /\ UNCHANGED << served, pc >>
  /\ UNCHANGED << hasIpy, quota, id, mode, execute, drones, weaviateClient >>

\* ----------------------------------------------------------- retrieval turn

\* The context block of brainscan.
ContextOf(hits) ==
  LET joined == Join([i \in 1..Len(hits) |-> DataGet(hits[i].properties, "text", <<>>)],
                     HitSeparator)
  IN  IF joined = <<>> THEN NoContextText ELSE joined

\* What the knowledge store does: connected says whether connect_to_local
\* succeeds when no client is held yet, raised whether the query raises, hits
\* what it returns otherwise.
StoreOutcomes ==
  { [connected |-> c, raised |-> TRUE, hits |-> <<>>] : c \in BOOLEAN }
    \cup { [connected |-> TRUE, raised |-> FALSE, hits |-> hs] : hs \in HitLists }

\* The check for hits left out.
NoHitsUnchecked(hits) == FALSE

\* not hits
NoHits(hits) == hits = <<>>

\* What the knowledge store did in a brainscan: it was not reached for
\* ("unused"), connect_to_local raised ("unreachable"), the query raised
\* ("raised") or it returned no hit ("empty") or some ("hits").
StoreDid(known, client, store) ==
  IF ~known THEN "unused"
  ELSE IF client = "None" /\ ~store.connected THEN "unreachable"
  ELSE IF store.raised THEN "raised"
  ELSE IF store.hits = <<>> THEN "empty"
  ELSE "hits"

\* The two turns with the context turn first.
ScanTurnsContextFirst(query, context) ==
  << Turn(TheBrainLabel, ContextText \o context),
     Turn(HostLabel, HostQueryPre \o query \o Quote) >>

\* The two turns brainscan appends before it calls the backend.
ScanTurns(query, context) ==
  << Turn(HostLabel, HostQueryPre \o query \o Quote),
     Turn(TheBrainLabel, ContextText \o context) >>

Brainscan(drone_name, query, stream, store) ==
  /\ pc = "idle"
  /\ op' = "brainscan"
  /\ args' = [name |-> drone_name, prompt |-> query,
              store |-> StoreDid(drone_name \in Keys(drones), weaviateClient, store)]
  /\ hist0' = history
  /\ drones0' = drones
  /\ IF drone_name \notin Keys(drones)
     THEN /\ result' = ReturnNone
          /\ trace' = << "validate_drone" >>
          /\ ResetCall
          /\ UNCHANGED << history, weaviateClient, served, pc >>
     ELSE IF weaviateClient = "None" /\ ~store.connected
     THEN /\ result' = Raise("ConnectionError")
          /\ trace' = << "validate_drone", "connect" >>
          /\ ResetCall
          /\ UNCHANGED << history, weaviateClient, served, pc >>
     ELSE /\ weaviateClient' = "client"
          /\ IF store.raised \/ NoHits(store.hits)
             THEN /\ result' = ReturnNone
                  /\ trace' = << "validate_drone", "connect", "query" >>
                  /\ ResetCall
                  /\ UNCHANGED << history, served, pc >>
             ELSE LET context == ContextOf(store.hits)
                      h2 == history \o ScanTurns(query, context)
                      messages ==
                        << Message("system", Get(drones, drone_name).persona),
                           Message("user", UserQueryPre \o query \o Quote \o NL \o NL
                                           \o ContextText \o context) >>
                  IN  /\ served < quota
                      /\ served' = served + 1
                      /\ history' = h2
                      /\ result' = NoResult
                      /\ trace' = << "validate_drone", "connect", "query", "append_turns",
                                     "build_messages", "chat" >>
                      /\ BeginReply(drone_name, Get(drones, drone_name).model, messages,
                                    stream, Get(drones, drone_name).options, h2)
  /\ UNCHANGED << hasIpy, quota, workspace, lab, written, id, mode, execute, drones >>

\* ----------------------------------------------------------- specifications

Next ==
  \/ \E a \in CtorArgs : \E fresh \in FreshIds : New(a.execute, a.mode, fresh)
  \/ \E data \in Records : \E fresh \in FreshIds : Load(data, fresh)
  \/ \E fresh \in FreshIds : Reload(fresh)
  \/ \E name \in Names : \E a \in AddArgs :
       AddDrone(name, a.model, a.persona, a.options)
  \/ \E prompt \in Prompts : \E stream \in BOOLEAN :
       \E outcomes \in [1..Len(Matches(prompt)) -> LabOutcomes] :
         Ask(prompt, stream, outcomes)
  \/ \E drone_name \in ScanNames : \E query \in Queries : \E stream \in BOOLEAN :
       \E store \in StoreOutcomes :
         Brainscan(drone_name, query, stream, store)
  \/ \E part \in Parts : StreamPart(part)
  \/ StreamEnd
  \/ \E response \in Responses : ChatReturn(response)
  \/ BackendRaise
  \/ Render
  \/ SaveJson

Spec == Init /\ [][Next]_vars

\* Blocking directed messages with fenced blocks, with every outcome of theLab.
NextBridge ==
  \/ \E a \in CtorArgs : \E fresh \in FreshIds : New(a.execute, a.mode, fresh)
  \/ \E a \in AddArgs : AddDrone(NameN, a.model, a.persona, a.options)
  \/ \E prompt \in BlockPrompts :
       \E outcomes \in [1..Len(Matches(prompt)) -> BlockOutcomes] :
         Ask(prompt, FALSE, outcomes)
  \/ \E response \in Responses : ChatReturn(response)
  \/ BackendRaise

SpecBridge == Init /\ [][NextBridge]_vars

\* Sessions built by the constructor and add_drone alone, outside a notebook,
\* with several blocking requests in a row.
InitFraming ==
  /\ hasIpy = FALSE
  /\ quota = MaxFramingRequests
  /\ Imported

NextFraming ==
  \/ \E fresh \in FreshIds : New(FALSE, "moderated", fresh)
  \/ \E name \in {NameN, NameE} : AddDrone(name, ModelA, PersonaA, NoneOptions)
  \/ \E prompt \in {PromptN, PromptEN} : Ask(prompt, FALSE, << >>)
  \/ \E query \in Queries :
       Brainscan(NameN, query, FALSE,
                 [connected |-> TRUE, raised |-> FALSE,
                  hits |-> << [properties |-> [text |-> <<"k">>]] >>])
  \/ \E response \in Responses : ChatReturn(response)
  \/ BackendRaise

SpecFraming == InitFraming /\ [][NextFraming]_vars

\* ------------------------------------------------------------------ claims

\* The concatenation of what the backend delivered, in the order received.
RECURSIVE Delivered(_)
Delivered(ps) ==
  IF ps = <<>> THEN <<>> ELSE PartContent(ps[1]) \o Delivered(Tail(ps))

LastTurn(h) == h[Len(h)]

\* The name a message addresses: the word after its first "@" that has one.
Addressed(prompt) ==
  LET i == MinOf({ k \in 1..(Len(prompt) - 1) :
                     prompt[k] = "@" /\ prompt[k + 1] \in WordChars })
      j == MinOf({ k \in (i + 1)..Len(prompt) :
                     k = Len(prompt) \/ prompt[k + 1] \notin WordChars })
  IN  SubSeq(prompt, i + 1, j)

HasAddress(prompt) ==
  \E k \in 1..(Len(prompt) - 1) : prompt[k] = "@" /\ prompt[k + 1] \in WordChars

\* C1: the conversation log is append-only: at every step of every operation
\* the log before the step is a prefix of the log after it.
C1_AppendOnly == [][IsPrefix(history, history')]_vars

\* C1 witness: a reply was appended behind a log that already held turns.
C1_Witness ==
  /\ op = "ask"
  /\ backend = "done"
  /\ Len(hist0) >= 2
  /\ Len(history) = Len(hist0) + 2

\* C2: an ask whose message has no address, or addresses a name that is not
\* registered, returns None and leaves the log as it was before the call.
C2_RejectedAskLeavesLog ==
  (op = "ask" /\ (~HasAddress(args.prompt) \/ Addressed(args.prompt) \notin Keys(drones0)))
    => /\ pc = "idle"
       /\ result = ReturnNone
       /\ history = hist0
       /\ backend = "none"

\* C2 witness: "@G @N" was rejected for the unknown G although N is registered
\* and the log holds turns.
C2_Witness ==
  /\ op = "ask"
  /\ args.prompt = PromptGhost
  /\ NameN \in Keys(drones)
  /\ NameG \notin Keys(drones)
  /\ history # <<>>
  /\ result = ReturnNone

\* C3 as stated: after every ask, whatever its outcome, the log is either the
\* prior log, or the prior log followed by a Host turn and a turn of the
\* addressed Drone.
C3_HostTurnNeverAlone ==
  (op = "ask" /\ pc = "idle")
    => \/ history = hist0
       \/ /\ Len(history) = Len(hist0) + 2
          /\ IsPrefix(hist0, history)
          /\ history[Len(hist0) + 1].name = HostLabel
          /\ history[Len(hist0) + 2].name = Addressed(args.prompt)

\* C3 amended: an ask that fails validation commits nothing; an ask whose
\* backend call succeeds commits the Host turn and then the reply turn of the
\* addressed Drone; an ask whose backend call fails commits the Host turn alone.
C3_HostTurnAloneOnlyOnFailure ==
  (op = "ask" /\ pc = "idle")
    => \/ /\ result = ReturnNone
          /\ backend = "none"
          /\ history = hist0
       \/ /\ backend = "done"
          /\ result.kind = "return" /\ ~result.none
          /\ Len(history) = Len(hist0) + 2
          /\ IsPrefix(hist0, history)
          /\ history[Len(hist0) + 1].name = HostLabel
          /\ history[Len(hist0) + 2] = Turn(Addressed(args.prompt), result.value)
       \/ /\ backend = "failed"
          /\ result = Raise("BackendError")
          /\ Len(history) = Len(hist0) + 1
          /\ IsPrefix(hist0, history)
          /\ LastTurn(history).name = HostLabel

\* C3 witness: an ask ended by a backend failure after a part had arrived.
C3_Witness ==
  /\ op = "ask"
  /\ pc = "idle"
  /\ backend = "failed"
  /\ parts # <<>>
  /\ Len(history) = Len(hist0) + 1

\* C4: when the backend call fails, the failure reaches the caller of ask or
\* brainscan and the log is what it was when the reply attempt began: the
\* turns committed before the call remain, and neither a turn of the target
\* Drone nor the partial buffer is committed.
C4_BackendFailureLeavesLog ==
  (backend = "failed")
    => /\ pc = "idle"
       /\ op \in {"ask", "brainscan"}
       /\ result = Raise("BackendError")
       /\ history = hist1
       /\ IsPrefix(hist0, history)
       /\ op = "ask" => /\ Len(history) = Len(hist0) + 1
                        /\ LastTurn(history).name = HostLabel
                        /\ IsPrefix(args.prompt, LastTurn(history).content)
       /\ op = "brainscan" => /\ Len(history) = Len(hist0) + 2
                              /\ history[Len(hist0) + 1].name = HostLabel
                              /\ history[Len(hist0) + 2].name = TheBrainLabel

\* C4 witness: a streaming call failed between two deltas.
C4_Witness ==
  /\ backend = "failed"
  /\ request.stream
  /\ Len(parts) = 1
  /\ reply # <<>>

\* C5: while the backend call is in progress the log holds no turn of the
\* reply; a successful attempt has appended exactly one turn, of the target
\* Drone, whose content is the concatenation of all deltas in the order
\* received (the response's content in non-streaming mode).
C5_ReplyCommittedOnceKnown ==
  /\ pc \in {"streaming", "chat"} => /\ backend = "open"
                                     /\ history = hist1
  /\ backend = "done" => /\ pc = "idle"
                         /\ history = Append(hist1, Turn(request.name, Delivered(parts)))
                         /\ result = Return(Delivered(parts))

\* C5 witness: a streaming reply of two different deltas was committed.
C5_Witness ==
  /\ backend = "done"
  /\ request.stream
  /\ Len(parts) = 2
  /\ parts[1] # parts[2]

\* The display calls made inside the streaming loop: all but the first and,
\* once the reply is committed, the last.
LoopCalls ==
  IF shown = <<>> THEN <<>>
  ELSE SubSeq(shown, 2, IF backend = "done" THEN Len(shown) - 1 ELSE Len(shown))

\* One provisional transcript per delta, in delta order, each with the buffer
\* up to and including that delta.
OnePerDelta ==
  /\ Len(LoopCalls) = Len(parts)
  /\ \A i \in 1..Len(parts) :
       LoopCalls[i].text = TempMd(hist1, request.name, Delivered(SubSeq(parts, 1, i)))

\* C6 as stated: in streaming mode the transcript is published once per delta,
\* in order, with the cumulative buffer.
C6_PublishedPerDelta ==
  (backend # "none" /\ request.stream) => OnePerDelta

\* C6 amended: in streaming mode, when IPython's display is available
\* (_HAS_IPY), the transcript is published once per delta, in delta order, with
\* the cumulative buffer up to and including that delta; when it is not, no
\* provisional transcript is published in the loop at all.
C6_PublishedPerDeltaWithIPython ==
  (backend # "none" /\ request.stream)
    => IF hasIpy THEN OnePerDelta ELSE LoopCalls = <<>>

\* C6 witness: two different deltas have arrived with a display available.
C6_Witness ==
  /\ hasIpy
  /\ backend = "open"
  /\ request.stream
  /\ Len(parts) = 2
  /\ parts[1] # parts[2]
  /\ Len(shown) = 3

\* C7: registering under a name already registered, or under a name that
\* contains the Host label or the knowledge-store label, raises and leaves the
\* directory unchanged.
C7_RejectedRegistration ==
  (op = "add_drone"
     /\ \/ args.name \in Keys(drones0)
        \/ Contains(HostLabel, args.name)
        \/ Contains(TheBrainLabel, args.name))
    => /\ result = Raise("ValueError")
       /\ drones = drones0

\* C7 witness: a second registration of a name, with another model, was rejected.
C7_Witness ==
  /\ op = "add_drone"
  /\ args.name \in Keys(drones0)
  /\ Get(drones0, args.name).model # args.model
  /\ result = Raise("ValueError")

\* C8: every turn of the log is spoken by the Host label, the knowledge-store
\* label or a registered Drone, also in a session restored by load_json.
C8_SpeakersRegistered ==
  \A i \in 1..Len(history) :
    history[i].name \in {HostLabel, TheBrainLabel} \cup Keys(drones)

\* C9: no registered name is or contains the Host label or the
\* knowledge-store label, also in a session restored by load_json.
C9_NamesNotReserved ==
  \A k \in Keys(drones) : ~Contains(HostLabel, k) /\ ~Contains(TheBrainLabel, k)

\* C10: the messages ask hands to the backend are one system message with the
\* target's persona, then one message per log turn in order (the Host turn
\* just appended included): role assistant with the content verbatim for the
\* target's own turns, role user with "[<speaker>]: <content>" for the others.
C10_ContextFraming ==
  (op = "ask" /\ backend = "open")
    => /\ request.name = Addressed(args.prompt)
       /\ Len(history) = Len(hist0) + 1
       /\ LastTurn(history).name = HostLabel
       /\ Len(request.messages) = Len(history) + 1
       /\ request.messages[1] =
            [role |-> "system", content |-> Get(drones, request.name).persona]
       /\ \A i \in 1..Len(history) :
            request.messages[i + 1] =
              IF history[i].name = request.name
              THEN [role |-> "assistant", content |-> history[i].content]
              ELSE [role |-> "user",
                    content |-> <<"[">> \o history[i].name \o <<"]", ":", " ">>
                                \o history[i].content]

\* C10 witness: the log framed holds a turn of the target, a turn of another
\* Drone and the Host turn just appended.
C10_Witness ==
  /\ op = "ask"
  /\ backend = "open"
  /\ \E i \in 1..Len(history) : history[i].name = request.name
  /\ \E i \in 1..Len(history) : history[i].name \notin {request.name, HostLabel}

\* C11: address resolution uses only the first "@" directly followed by word
\* characters: when that name is not registered the ask is rejected even if a
\* later "@name" is registered, and when it is registered that Drone, and no
\* other, receives the request.
C11_FirstMatchOnly ==
  (op = "ask" /\ HasAddress(args.prompt))
    => IF Addressed(args.prompt) \notin Keys(drones0)
       THEN /\ result = ReturnNone
            /\ backend = "none"
            /\ history = hist0
       ELSE /\ backend # "none"
            /\ request.name = Addressed(args.prompt)
            /\ request.model = Get(drones0, Addressed(args.prompt)).model
            /\ request.messages[1].content = Get(drones0, Addressed(args.prompt)).persona
            /\ backend = "done" => LastTurn(history).name = Addressed(args.prompt)

\* C11 witness: "@E @N" was answered by E although N is registered too.
C11_Witness ==
  /\ op = "ask"
  /\ args.prompt = PromptEN
  /\ {NameE, NameN} \subseteq Keys(drones)
  /\ backend = "done"
  /\ LastTurn(history).name = NameE

\* C12: a brainscan that names an unregistered Drone, or whose query returns
\* no hit, returns None, leaves the log as it was and makes no backend call.
C12_ScanWithoutContext ==
  (op = "brainscan" /\ (args.name \notin Keys(drones0) \/ args.store = "empty"))
    => /\ pc = "idle"
       /\ result = ReturnNone
       /\ history = hist0
       /\ backend = "none"
       /\ "chat" \notin { trace[i] : i \in 1..Len(trace) }

\* C12 witness: the query for a registered Drone returned no hit, in a session
\* whose log holds turns.
C12_Witness ==
  /\ op = "brainscan"
  /\ args.name \in Keys(drones)
  /\ args.store = "empty"
  /\ history # <<>>

\* C13: when the knowledge store is unavailable during brainscan (the
\* connection cannot be established, or the query raises), brainscan returns None
\* instead of raising, leaves the log as it was and makes no backend call.
C13_StoreUnavailableDegrades ==
  (op = "brainscan" /\ args.store \in {"unreachable", "raised"})
    => /\ pc = "idle"
       /\ result = ReturnNone
       /\ history = hist0
       /\ backend = "none"

\* C14: a brainscan with at least one hit has appended the Host query turn and
\* then the knowledge-store context turn, adjacent and in that order, when the
\* backend call is made; if the call fails both turns remain and no Drone turn
\* is added; if it succeeds the log has grown by exactly three turns: Host,
\* knowledge store, target Drone.
C14_ScanTurns ==
  (op = "brainscan" /\ args.store = "hits")
    => /\ backend # "none"
       /\ IsPrefix(hist0, hist1)
       /\ Len(hist1) = Len(hist0) + 2
       /\ hist1[Len(hist0) + 1].name = HostLabel
       /\ hist1[Len(hist0) + 2].name = TheBrainLabel
       /\ backend \in {"open", "failed"} => history = hist1
       /\ backend = "done" => /\ Len(history) = Len(hist0) + 3
                              /\ IsPrefix(hist1, history)
                              /\ LastTurn(history).name = args.name

\* C14 witness: the backend call of a brainscan failed after a part had
\* arrived, in a session whose log held turns.
C14_Witness ==
  /\ op = "brainscan"
  /\ backend = "failed"
  /\ parts # <<>>
  /\ hist0 # <<>>
  /\ Len(history) = Len(hist0) + 2

\* C15: loading the record save_json wrote gives a session with the same id,
\* mode (also an unrecognized one), execute flag, directory (same names in the
\* same order, every field of every Drone) and log (same turns in the same
\* order).
C15_SaveLoadRoundTrip ==
  [][(op' = "load_json" /\ args'.path = "saved")
       => /\ result' = ReturnNone
          /\ << id, mode, execute, drones, history >>'
               = << id, mode, execute, drones, history >>]_vars

\* C15 witness: a session with an unrecognized mode, a Drone with options and
\* a log holding a retrieval turn was saved and loaded again.
C15_Witness ==
  /\ op = "load_json"
  /\ args.path = "saved"
  /\ result = ReturnNone
  /\ mode = "swarm"
  /\ execute
  /\ \E i \in 1..Len(drones) : drones[i].value.options = SomeOptions
  /\ \E i \in 1..Len(history) : history[i].name = TheBrainLabel

\* Whether the steps of t are among those of order, each at most once, in
\* the order of order.
RECURSIVE InOrder(_, _)
InOrder(t, order) ==
  IF t = << >> THEN TRUE
  ELSE IF order = << >> THEN FALSE
  ELSE IF t[1] = order[1] THEN InOrder(Tail(t), Tail(order))
  ELSE InOrder(t, Tail(order))

Steps(t) == { t[i] : i \in 1..Len(t) }

\* What the log and the backend call show of the steps taken: the Host turn is
\* in the log exactly when it was appended, the backend was called exactly when
\* the call step was taken, and the reply is in the log exactly when it was
\* appended.
StepsShow ==
  /\ "append_host" \in Steps(trace) <=> Len(history) > Len(hist0)
  /\ "execute_code_blocks" \in Steps(trace) => execute
  /\ "chat" \in Steps(trace) <=> backend # "none"
  /\ "append_reply" \in Steps(trace) <=> backend = "done"
  /\ "chat" \in Steps(trace)
       => /\ {"resolve_target", "append_host", "build_messages"} \subseteq Steps(trace)
          /\ execute => "execute_code_blocks" \in Steps(trace)

\* C16 as stated: the steps of a directed message happen in the order code
\* execution (when enabled), Host turn appended, target resolved, context
\* built, inference call, reply turn appended.
C16_StepOrder ==
  (op = "ask")
    => /\ StepsShow
       /\ InOrder(trace, << "execute_code_blocks", "append_host", "resolve_target",
                            "build_messages", "chat", "append_reply" >>)

\* C16 amended: the target is resolved first (an ask that fails there executes
\* no code and appends nothing), then the code blocks are executed (when
\* enabled), then the Host turn is appended, then the context is built, then
\* the inference call is made, then the reply turn is appended.
C16_StepOrderResolveFirst ==
  (op = "ask")
    => /\ StepsShow
       /\ trace # << >>
       /\ trace[1] = "resolve_target"
       /\ InOrder(trace, << "resolve_target", "execute_code_blocks", "append_host",
                            "build_messages", "chat", "append_reply" >>)
       /\ result = ReturnNone => /\ trace = << "resolve_target" >>
                                 /\ lab = << >>
                                 /\ history = hist0

\* C16 witness: an ask with execution enabled ran a block and got its reply.
C16_Witness ==
  /\ op = "ask"
  /\ execute
  /\ lab # << >>
  /\ backend = "done"
  /\ Len(trace) = 6

IsRun(e) == e.ev \in {"run_python_script_in_lab", "run_in_lab"}

Section(upper, outcome) ==
  <<"-", "-", "-", " ", "E", "X", "E", "C", "U", "T", "I", "N", "G", " ">> \o upper
    \o <<" ", "-", "-", "-", "\n">>
    \o (IF outcome.kind = "raised"
        THEN <<"E", "X", "E", "C", "U", "T", "I", "O", "N", " ", "F", "A", "I", "L", "E", "D",
               ":", "\n">> \o outcome.exc
        ELSE <<"E", "X", "I", "T", " ", "C", "O", "D", "E", ":", " ">>
               \o (IF outcome.exit_code = 0 THEN <<"0">> ELSE <<"1">>)
               \o <<"\n", "\n", "O", "U", "T", "P", "U", "T", ":", "\n">> \o outcome.output)
    \o <<"\n", "-", "-", "-", " ", "E", "N", "D", " ", "-", "-", "-">>

\* C18: when the dispatch of a block raises, ask does not raise there: the
\* block gets a failure report section, the later blocks are still dispatched,
\* the Host turn holds the message followed by one report section per block in
\* source order, and the backend is called.
C18_DispatchFailureContained ==
  (op = "ask" /\ execute /\ args.prompt = PromptTwoBlocks /\ NameN \in Keys(drones0))
    => LET runs == SelectSeq(lab, IsRun)
       IN  /\ Len(runs) = 2
           /\ runs[1].ev = "run_python_script_in_lab"
           /\ runs[2].ev = "run_in_lab"
           /\ runs[2].text = <<"y">>
           /\ backend # "none"
           /\ Len(hist1) = Len(hist0) + 1
           /\ LastTurn(hist1).name = HostLabel
           /\ LastTurn(hist1).content =
                PromptTwoBlocks \o <<"\n", "\n">>
                  \o Section(<<"P", "Y", "T", "H", "O", "N">>, runs[1].outcome)
                  \o <<"\n", "\n">>
                  \o Section(<<"S", "H">>, runs[2].outcome)

\* C18 witness: the dispatch of the first block raised, the second block
\* returned, and the backend was called.
C18_Witness ==
  /\ op = "ask"
  /\ args.prompt = PromptTwoBlocks
  /\ backend # "none"
  /\ Len(SelectSeq(lab, IsRun)) = 2
  /\ SelectSeq(lab, IsRun)[1].outcome.kind = "raised"
  /\ SelectSeq(lab, IsRun)[2].outcome.kind = "returned"

\* C19: ask, brainscan, to_markdown and save_json, with any outcome, leave the
\* directory as it was; add_drone either fails and leaves it as it was, or adds
\* one entry under a name that was not registered, behind the entries there
\* were: no entry is removed or rewritten.
C19_DirectoryFrame ==
  /\ op \in {"ask", "brainscan", "to_markdown", "save_json"} => drones = drones0
  /\ op = "add_drone"
       => \/ /\ result = Raise("ValueError")
             /\ drones = drones0
          \/ /\ result = ReturnNone
             /\ args.name \notin Keys(drones0)
             /\ Len(drones) = Len(drones0) + 1
             /\ IsPrefix(drones0, drones)
             /\ drones[Len(drones)].key = args.name
             /\ drones[Len(drones)].value.model = args.model
             /\ drones[Len(drones)].value.persona = args.persona

\* C19 witness: an ask of a Drone with options got its reply.
C19_Witness ==
  /\ op = "ask"
  /\ backend = "done"
  /\ request.options = SomeOptions
  /\ drones = drones0

====
